---- MODULE Spec2Model ----
(***************************************************************************)
(* State-machine model of the ISUCON tracer (package tracer).              *)
(*                                                                         *)
(* The dispatcher goroutine started by init() receives signals from a      *)
(* buffered channel and runs Start and Stop statement by statement.  The   *)
(* host application runs database calls through the ":logger" proxy        *)
(* (PreFunc, the driver call, PostFunc) and stopwatch measurements         *)
(* (Measure / WebRouteMeasure / End) concurrently with the dispatcher.     *)
(***************************************************************************)
EXTENDS Integers, Sequences, FiniteSets, TLC

\* ---------------------------------------------------------------- bounds
\* Number of signals the operating system delivers in one behaviour.
MaxSignals == 3
\* The same, in the behaviours that also run database calls or
\* measurements.
MaxCallSignals == 2
\* Number of times registerTraceDBDriver is called.
MaxRegisterCalls == 2
\* Number of signals delivered while drivers are being registered.
MaxInitSignals == 1
\* Number of database calls the host application issues.
MaxCalls == 1
\* Number of stopwatch measurements the host application takes.
MaxMeasures == 2
\* Last value of the wall clock.
MaxTime == 1
\* Number of pieces a generated statement text is made of.
MaxPieces == 5

\* ------------------------------------------------------------- constants
\* Capacity of the signal channel: make(chan os.Signal, 1).
SignalChanCap == 1

VARIABLES
    TraceID,             \* var TraceID string
    sqlLogFile,          \* var sqlLogFile *os.File
    perfomanceLogFile,   \* var perfomanceLogFile *os.File
    webrouteLogFile,     \* var webrouteLogFile *os.File
    profilerHandle,      \* var profilerHandle interface{ Stop() }
    fds,                 \* the operating system: the open handles, their
                         \* offsets, and the contents of the files
    profiler,            \* the profiler subsystem: the runs in progress
    now,                 \* the wall clock read by time.Now()
    signalCh,            \* signalCh, the buffered signal channel
    sigs,                \* number of signals delivered so far
    disp,                \* the dispatcher goroutine: position and locals
    process,             \* "running", or how the process ended
    calls,               \* the database calls of the host application
    measures,            \* the PerfHandle values of the host application
    registry             \* database/sql's driver registry, the calls of
                         \* registerTraceDBDriver made so far, and the
                         \* position and locals of the one in progress

vars == <<TraceID, sqlLogFile, perfomanceLogFile, webrouteLogFile,
          profilerHandle, fds, profiler, now, signalCh, sigs, disp,
          process, calls, measures, registry>>

session == <<TraceID, sqlLogFile, perfomanceLogFile, webrouteLogFile,
             profilerHandle>>

\* ------------------------------------------------------------ data types
\* The empty Go string; a non-empty string is a non-empty sequence.
EmptyString == <<>>

\* The nil *os.File and the nil profiler interface value.
Nil == [kind |-> "nil", id |-> 0]

Signals == {"SIGUSR1", "SIGUSR2", "SIGHUP", "SIGINT", "SIGTERM", "SIGQUIT"}

\* The three log files, at fixed paths under /tmp.
LogKinds == {"sql", "perf", "route"}

\* The outcome of the underlying driver call handed to the after-hook.
NoError == "nil"
ErrSkip == "driver.ErrSkip"
Outcomes == {NoError, "error", ErrSkip}

CallIds == 1 .. MaxCalls
MeasureIds == 1 .. MaxMeasures

\* time.Now().Format("20060102-150405"): the clock value at second
\* precision, as a non-empty string.
FormatTime(t) == <<t>>

\* ---------------------------------------------------------- query text
\* A query text is a sequence of characters.
IsSpace(ch) == ch \in {" ", "\r", "\n", "\t"}

RECURSIVE DropSpaces(_)
\* The text after its leading run of whitespace.
DropSpaces(s) ==
    IF s # <<>> /\ IsSpace(Head(s)) THEN DropSpaces(Tail(s)) ELSE s

RECURSIVE CutSpace(_)
\* regexCutSpace.ReplaceAllString(q, " ") for `[ \r\n\t]{1,}`: every run of
\* whitespace becomes one space.
CutSpace(s) ==
    IF s = <<>> THEN <<>>
    ELSE IF IsSpace(Head(s))
         THEN <<" ">> \o CutSpace(DropSpaces(Tail(s)))
         ELSE <<Head(s)>> \o CutSpace(Tail(s))

OpenAt(q, i) == i + 1 <= Len(q) /\ q[i] = "/" /\ q[i + 1] = "*"
CloseAt(q, j) == j + 1 <= Len(q) /\ q[j] = "*" /\ q[j + 1] = "/"
Min(S) == CHOOSE x \in S : \A y \in S : x <= y

\* A tag pattern whose second group keeps the spaces around the content.
TagCommentUntrimmed(q) ==
    LET starts == {i \in 1 .. Len(q) :
                     OpenAt(q, i) /\ \E j \in i + 2 .. Len(q) : CloseAt(q, j)}
    IN IF starts = {} THEN <<>>
       ELSE LET i == Min(starts)
                j == Min({k \in i + 2 .. Len(q) : CloseAt(q, k)})
            IN <<i - 1, j + 1, i - 1, j + 1, i + 1, j - 1>>

\* regexTagComment.FindStringSubmatchIndex(q) for `(/\* *(.*?) *\*/)`: the
\* leftmost match, as Go's 0-based half-open index pairs of the whole match
\* (0, 1), group 1 (2, 3) and group 2 (4, 5); <<>> stands for nil.  The
\* match starts at the first "/*" that a "*/" follows, skips the spaces
\* after it, and ends at the first "*/"; group 2 is what lies between,
\* without its trailing spaces.
TagComment(q) ==
    LET starts == {i \in 1 .. Len(q) :
                     OpenAt(q, i) /\ \E j \in i + 2 .. Len(q) : CloseAt(q, j)}
    IN IF starts = {} THEN <<>>
       ELSE LET i == Min(starts)
                s == Min({k \in i + 2 .. Len(q) : q[k] # " "})
                j == Min({k \in s .. Len(q) : CloseAt(q, k)})
                e == Min({k \in s .. j :
                            \A x \in k .. j - 1 : q[x] = " "})
            IN <<i - 1, j + 1, i - 1, j + 1, s - 1, e - 1>>

\* The Go slice q[a:b] with 0-based half-open bounds.
Slice(q, a, b) == SubSeq(q, a + 1, b)

\* A PostFunc that extracts the tag but logs the whole normalized text.
TagAndQueryKeepsTail(queryString) ==
    LET query == CutSpace(queryString)
        posList == TagComment(query)
    IN IF posList # <<>>
       THEN [tag |-> Slice(query, posList[5], posList[6]), query |-> query]
       ELSE [tag |-> <<>>, query |-> query]

\* The tag and query fields PostFunc logs for a statement text.
TagAndQuery(queryString) ==
    LET query == CutSpace(queryString)
        posList == TagComment(query)
    IN IF posList # <<>>
       THEN [tag |-> Slice(query, posList[5], posList[6]),
             query |-> Slice(query, 0, posList[2])]
       ELSE [tag |-> <<>>, query |-> query]

\* A statement text with a tag comment, and one without.
TaggedQuery ==
    <<"a", " ", " ", "/", "*", " ", "t", " ", "*", "/", "\n", "b">>
PlainQuery == <<"a", "\t", "b">>

\* The statement texts the host application executes.
Queries == {TaggedQuery, PlainQuery}

\* The statement text
\*   "SELECT   *\nFROM users  /* list-users */ WHERE id = ?"
ScenarioQuery ==
    <<"S", "E", "L", "E", "C", "T", " ", " ", " ", "*", "\n", "F",
      "R", "O", "M", " ", "u", "s", "e", "r", "s", " ", " ", "/",
      "*", " ", "l", "i", "s", "t", "-", "u", "s", "e", "r", "s",
      " ", "*", "/", " ", "W", "H", "E", "R", "E", " ", "i", "d",
      " ", "=", " ", "?">>

ScenarioQueries == Queries \cup {ScenarioQuery}

\* The pieces generated statement texts are made of: a letter, a space, a
\* newline, a comment opener, a comment closer, and a slash.
Pieces == { <<"a">>, <<" ">>, <<"\n">>, <<"/", "*">>, <<"*", "/">>, <<"/">> }

RECURSIVE TextsOf(_)
\* The texts made of at most n pieces.
TextsOf(n) ==
    IF n = 0 THEN {<<>>}
    ELSE LET shorter == TextsOf(n - 1)
         IN shorter \cup {s \o piece : s \in shorter, piece \in Pieces}

Texts == TextsOf(MaxPieces)

\* The clock values at which a call starts, and the times the underlying
\* driver call takes, in nanoseconds.
StartTimes == {0, 1000}
Durations == {1, 1500000}

\* ------------------------------------------------------ record format
Digits == <<"0", "1", "2", "3", "4", "5", "6", "7", "8", "9">>

RECURSIVE Decimal(_)
\* The verb %d: the decimal digits of an integer.
Decimal(n) ==
    IF n < 0 THEN <<"-">> \o Decimal(0 - n)
    ELSE IF n < 10 THEN <<Digits[n + 1]>>
    ELSE Decimal(n \div 10) \o <<Digits[(n % 10) + 1]>>

\* The text the format "%d\t%d\t%s\t%s\n" produces: four fields separated
\* by tabs and ended by a newline.
FormatRecord(startTime, timeDelta, tag, text) ==
    Decimal(startTime) \o <<"\t">> \o Decimal(timeDelta) \o <<"\t">>
        \o tag \o <<"\t">> \o text \o <<"\n">>

\* ------------------------------------------------- the operating system
\* A file is a sequence of bytes.  Every open handle (*os.File) has its
\* own offset into the file of its path: the files are opened without
\* O_APPEND, so a handle writes where its own last write ended.

\* The byte that fills a hole: a write beyond the end of the file.
NulByte == "NUL"

\* The offsets of the open handles when handle h is opened at offset 0.
OffsetsWith(os, h) ==
    [x \in os.open \cup {h} |-> IF x = h THEN 0 ELSE os.offset[x]]

\* An os.Create that opens the file without truncating it.
CreateFileKeepsContent(os, h) ==
    [os EXCEPT !.open = @ \cup {h},
               !.offset = OffsetsWith(os, h)]

\* os.Create(path) succeeding: the file at the path is truncated and a new
\* open handle, at offset 0, is returned.  The offsets of the handles
\* that are already open on the path stay as they are.
CreateFile(os, h) ==
    [os EXCEPT !.open = @ \cup {h},
               !.offset = OffsetsWith(os, h),
               !.content[h.kind] = <<>>]

\* (*os.File).Close: closes the descriptor if it is open; a second Close of
\* the same handle returns an error and changes nothing.
CloseFile(os, h) ==
    [os EXCEPT !.open = @ \ {h},
               !.offset = [x \in os.open \ {h} |-> os.offset[x]]]

\* fmt.Fprintf(f, ...) succeeds exactly when f is an open handle (a nil or a
\* closed *os.File makes Write return an error, which the callers drop).
CanWrite(os, h) == h \in os.open

\* What fmt.Fprintf(f, ...) returns, which the callers drop.
FprintfResult(os, h) == IF CanWrite(os, h) THEN "ok" ELSE "err"

\* The file after the bytes are written at the offset: a hole of NUL bytes
\* fills the gap when the offset lies beyond the end, the bytes replace
\* what was at their place, and what lies behind them stays.
WriteAt(file, offset, bytes) ==
    LET padded == IF Len(file) < offset
                  THEN file \o [i \in 1 .. offset - Len(file) |-> NulByte]
                  ELSE file
    IN SubSeq(padded, 1, offset) \o bytes
           \o SubSeq(padded, offset + Len(bytes) + 1, Len(padded))

\* fmt.Fprintf(f, "%d\t%d\t%s\t%s\n", ...): the line is written to the
\* file at the offset of the handle, which advances by its length; nothing
\* happens when the write fails.
Fprintf(os, h, line) ==
    IF CanWrite(os, h)
    THEN [os EXCEPT !.content[h.kind] = WriteAt(@, os.offset[h], line),
                    !.offset[h] = @ + Len(line)]
    ELSE os

\* The values of db, the result of sql.Open in the iteration in progress.
NoDB == "none"
NilDB == "nil"
OpenDB == "db"

\* The registry outside registerTraceDBDriver: no loop in progress.
NoLoop == [pc |-> "idle", names |-> <<>>, db |-> NoDB]

\* A statement of the dispatcher that made no library call.
NoCall == [fn |-> "none", on |-> Nil]

\* A database call the host application has not issued yet, for the
\* statement text it will execute (stmt.QueryString).
NewCall(queryString) ==
    [pc |-> "new", stmt |-> queryString, ctx |-> 0, err |-> NoError,
     timeDelta |-> 0, ret |-> NoError, fprintf |-> "none",
     preIn |-> "idle"]

\* ------------------------------------------------------------------ Init
Init ==
    /\ TraceID = EmptyString
    /\ sqlLogFile = Nil
    /\ perfomanceLogFile = Nil
    /\ webrouteLogFile = Nil
    /\ profilerHandle = Nil
    /\ fds = [open |-> {}, offset |-> <<>>,
              content |-> [k \in LogKinds |-> <<>>]]
    /\ profiler = [running |-> {}]
    /\ now = 0
    /\ signalCh = <<>>
    /\ sigs = 0
    /\ disp = [pc |-> "wait", signal |-> "none", ret |-> "wait",
               nth |-> 0, stopIdle |-> TRUE, restart |-> FALSE,
               call |-> NoCall]
    /\ process = "running"
    /\ calls = [c \in CallIds |-> NewCall(TaggedQuery)]
    /\ registry = [drivers |-> {}, calls |-> 0, loop |-> NoLoop]
    /\ measures = [m \in MeasureIds |->
                  [pc |-> "new", startTime |-> 0, tag |-> <<>>,
                   text |-> <<>>, toFile |-> Nil, fn |-> "none",
                   timeDelta |-> 0, fprintf |-> "none",
                   madeIn |-> "idle"]]

Alive == process = "running"

\* The session state as a caller sees it: "busy" while Start or Stop is in
\* progress, else "running" or "idle" by the session id.
SessionState ==
    IF disp.pc \notin {"wait", "dispatch"} THEN "busy"
    ELSE IF TraceID # EmptyString THEN "running" ELSE "idle"

\* The library call a statement of the dispatcher made: the function and
\* the handle it was made on.
Call(fn, h) == [fn |-> fn, on |-> h]

\* The first database call of the host application.
FirstCall == CHOOSE c \in CallIds : \A d \in CallIds : c <= d

\* The state in which the first Start, which created its three files, has
\* just returned: the session is Running and its streams are open.  The
\* clock shows one of the given times and the first database call is
\* about to execute one of the given statement texts.
InitRunning(texts, times) ==
    LET prof == [kind |-> "prof", id |-> 1]
        sql == [kind |-> "sql", id |-> 1]
        perf == [kind |-> "perf", id |-> 1]
        route == [kind |-> "route", id |-> 1]
    IN /\ TraceID = FormatTime(0)
       /\ sqlLogFile = sql
       /\ perfomanceLogFile = perf
       /\ webrouteLogFile = route
       /\ profilerHandle = prof
       /\ fds = [open |-> {sql, perf, route},
                 offset |-> [h \in {sql, perf, route} |-> 0],
                 content |-> [k \in LogKinds |-> <<>>]]
       /\ profiler = [running |-> {prof}]
       /\ now \in times
       /\ signalCh = <<>>
       /\ sigs = 1
       /\ disp = [pc |-> "wait", signal |-> "none", ret |-> "wait",
                  nth |-> 1, stopIdle |-> TRUE, restart |-> FALSE,
                  call |-> Call("os.Create", route)]
       /\ process = "running"
       /\ \E q \in texts :
             calls = [c \in CallIds |->
                        IF c = FirstCall THEN NewCall(q)
                        ELSE NewCall(TaggedQuery)]
       /\ registry = [drivers |-> {}, calls |-> 0, loop |-> NoLoop]
       /\ measures = [m \in MeasureIds |->
                     [pc |-> "new", startTime |-> 0, tag |-> <<>>,
                      text |-> <<>>, toFile |-> Nil, fn |-> "none",
                   timeDelta |-> 0, fprintf |-> "none",
                      madeIn |-> "idle"]]

\* A Running session whose first call executes a generated text.
InitText == InitRunning(Texts, {0})

\* A Running session whose first call executes one of the scenario texts
\* at one of the start times.
InitScenario == InitRunning(ScenarioQueries, StartTimes)

\* --------------------------------------------------------------- signals
\* The operating system delivers a signal: signal.Notify sends it to the
\* channel without blocking, so it is dropped when the buffer is full.
Deliver(s, limit) ==
    /\ Alive
    /\ sigs < limit
    /\ sigs' = sigs + 1
    /\ signalCh' = IF Len(signalCh) < SignalChanCap
                   THEN Append(signalCh, s) ELSE signalCh
    /\ UNCHANGED <<session, fds, profiler, now, disp, process, calls,
                   measures,
                   registry>>

\* The wall clock advances.
Tick ==
    /\ Alive
    /\ now < MaxTime
    /\ now' = now + 1
    /\ UNCHANGED <<session, fds, profiler, signalCh, sigs, disp, process,
                   calls, measures,
                   registry>>

\* ------------------------------------------------- the signal dispatcher
\* signal := <-signalCh
Receive ==
    /\ Alive
    /\ disp.pc = "wait"
    /\ signalCh # <<>>
    /\ disp' = [disp EXCEPT !.pc = "dispatch", !.signal = Head(signalCh),
                            !.call = NoCall]
    /\ signalCh' = Tail(signalCh)
    /\ UNCHANGED <<session, fds, profiler, now, sigs, process, calls,
                   measures,
                   registry>>

\* A dispatcher that is a single wait: after the Stop of a toggle-off
\* signal its goroutine returns instead of receiving again.
SignalTargetOneShot(s) ==
    IF s = "SIGUSR1" THEN [pc |-> "start_check", ret |-> "wait"]
    ELSE IF s = "SIGHUP" \/ s = "SIGUSR2"
         THEN [pc |-> "stop_id", ret |-> "return"]
         ELSE [pc |-> "stop_id", ret |-> "exit"]

\* Where the dispatcher goes for a signal: Start for SIGUSR1, Stop for
\* SIGHUP and SIGUSR2, Stop followed by os.Exit(0) for every other signal.
SignalTarget(s) ==
    IF s = "SIGUSR1" THEN [pc |-> "start_check", ret |-> "wait"]
    ELSE IF s = "SIGHUP" \/ s = "SIGUSR2"
         THEN [pc |-> "stop_id", ret |-> "wait"]
         ELSE [pc |-> "stop_id", ret |-> "exit"]

Dispatch ==
    /\ Alive
    /\ disp.pc = "dispatch"
    /\ disp' = [disp EXCEPT !.pc = SignalTarget(disp.signal).pc,
                            !.ret = SignalTarget(disp.signal).ret,
                            !.signal = "none",
                            !.call = NoCall]
    /\ UNCHANGED <<session, fds, profiler, now, signalCh, sigs, process,
                   calls, measures,
                   registry>>

\* os.Exit(0)
Exit ==
    /\ Alive
    /\ disp.pc = "exit"
    /\ process' = "exit0"
    /\ disp' = [disp EXCEPT !.call = Call("os.Exit", Nil)]
    /\ UNCHANGED <<session, fds, profiler, now, signalCh, sigs, calls,
                   measures,
                   registry>>

\* ------------------------------------------------------------------ Stop
\* A Stop that leaves the session id set.
StopTraceIDKeepsId ==
    /\ Alive
    /\ disp.pc = "stop_id"
    /\ disp' = [disp EXCEPT !.pc = "stop_prof",
                            !.stopIdle = (TraceID = EmptyString),
                            !.call = NoCall]
    /\ UNCHANGED <<session, fds, profiler, now, signalCh, sigs, process,
                   calls, measures, registry>>

\* if TraceID != "" { log.Printf(...); TraceID = "" }
StopTraceID ==
    /\ Alive
    /\ disp.pc = "stop_id"
    /\ TraceID' = EmptyString
    /\ disp' = [disp EXCEPT !.pc = "stop_prof",
                            !.stopIdle = (TraceID = EmptyString),
                            !.call = NoCall]
    /\ UNCHANGED <<sqlLogFile, perfomanceLogFile, webrouteLogFile,
                   profilerHandle, fds, profiler, now, signalCh, sigs,
                   process, calls, measures,
                   registry>>

\* handle.Stop() of the profiler: ends the run if it is still running.
ProfilerStop(p, h) ==
    [p EXCEPT !.running = @ \ {h}]

\* if profilerHandle != nil { profilerHandle.Stop() }
StopProfiler ==
    /\ Alive
    /\ disp.pc = "stop_prof"
    /\ profiler' = IF profilerHandle # Nil
                   THEN ProfilerStop(profiler, profilerHandle)
                   ELSE profiler
    /\ disp' = [disp EXCEPT !.pc = "stop_sql",
                            !.call = IF profilerHandle # Nil
                                     THEN Call("Stop", profilerHandle)
                                     ELSE NoCall]
    /\ UNCHANGED <<session, fds, now, signalCh, sigs, process, calls,
                   measures,
                   registry>>

\* if sqlLogFile != nil { sqlLogFile.Close() }
StopSqlLog ==
    /\ Alive
    /\ disp.pc = "stop_sql"
    /\ fds' = IF sqlLogFile # Nil THEN CloseFile(fds, sqlLogFile) ELSE fds
    /\ disp' = [disp EXCEPT !.pc = "stop_perf",
                            !.call = IF sqlLogFile # Nil
                                     THEN Call("Close", sqlLogFile)
                                     ELSE NoCall]
    /\ UNCHANGED <<session, profiler, now, signalCh, sigs, process, calls,
                   measures,
                   registry>>

\* if perfomanceLogFile != nil { perfomanceLogFile.Close() }, and Stop
\* returns to its caller.
StopPerfLog ==
    /\ Alive
    /\ disp.pc = "stop_perf"
    /\ fds' = IF perfomanceLogFile # Nil
              THEN CloseFile(fds, perfomanceLogFile) ELSE fds
    /\ disp' = [disp EXCEPT !.pc = disp.ret, !.ret = "wait",
                            !.call = IF perfomanceLogFile # Nil
                                     THEN Call("Close", perfomanceLogFile)
                                     ELSE NoCall]
    /\ UNCHANGED <<session, profiler, now, signalCh, sigs, process, calls,
                   measures,
                   registry>>

\* ----------------------------------------------------------------- Start
\* A Start that does not stop the session it finds open.
StartCheckNoStop ==
    /\ Alive
    /\ disp.pc = "start_check"
    /\ disp' = [disp EXCEPT !.pc = "start_id",
                            !.restart = (TraceID # EmptyString),
                            !.call = NoCall]
    /\ UNCHANGED <<session, fds, profiler, now, signalCh, sigs, process,
                   calls, measures, registry>>

\* if TraceID != "" { Stop() }
StartCheck ==
    /\ Alive
    /\ disp.pc = "start_check"
    /\ disp' = IF TraceID # EmptyString
               THEN [disp EXCEPT !.pc = "stop_id", !.ret = "start_id",
                                 !.restart = TRUE, !.call = NoCall]
               ELSE [disp EXCEPT !.pc = "start_id", !.restart = FALSE,
                                 !.call = NoCall]
    /\ UNCHANGED <<session, fds, profiler, now, signalCh, sigs, process,
                   calls, measures,
                   registry>>

\* TraceID = time.Now().Format("20060102-150405")
StartTraceID ==
    /\ Alive
    /\ disp.pc = "start_id"
    /\ TraceID' = FormatTime(now)
    /\ disp' = [disp EXCEPT !.pc = "start_prof", !.nth = @ + 1,
                            !.call = NoCall]
    /\ UNCHANGED <<sqlLogFile, perfomanceLogFile, webrouteLogFile,
                   profilerHandle, fds, profiler, now, signalCh, sigs,
                   process, calls, measures,
                   registry>>

\* profile.Start(...): a new profiler run begins and its handle is
\* returned.
ProfilerStart(p, h) ==
    [p EXCEPT !.running = @ \cup {h}]

\* profilerHandle = profile.Start(profile.ProfilePath(tmpDirName), ...)
StartProfiler ==
    /\ Alive
    /\ disp.pc = "start_prof"
    /\ LET h == [kind |-> "prof", id |-> disp.nth] IN
          /\ profilerHandle' = h
          /\ profiler' = ProfilerStart(profiler, h)
    /\ disp' = [disp EXCEPT !.pc = "start_sql",
                            !.call = Call("profile.Start", Nil)]
    /\ UNCHANGED <<TraceID, sqlLogFile, perfomanceLogFile, webrouteLogFile,
                   fds, now, signalCh, sigs, process, calls, measures,
                   registry>>

\* if sqlLogFile, err = os.Create(sqlLogFileName); err != nil { return }
StartSqlLog ==
    /\ Alive
    /\ disp.pc = "start_sql"
    /\ \E ok \in BOOLEAN :
          LET h == [kind |-> "sql", id |-> disp.nth] IN
          IF ok
          THEN /\ sqlLogFile' = h
               /\ fds' = CreateFile(fds, h)
               /\ disp' = [disp EXCEPT !.pc = "start_perf",
                                       !.call = Call("os.Create", h)]
          ELSE /\ sqlLogFile' = Nil
               /\ fds' = fds
               /\ disp' = [disp EXCEPT !.pc = "wait",
                                       !.call = Call("os.Create", Nil)]
    /\ UNCHANGED <<TraceID, perfomanceLogFile, webrouteLogFile,
                   profilerHandle, profiler, now, signalCh, sigs, process,
                   calls, measures,
                   registry>>

\* A Start that ends the process when the performance log cannot be
\* created.
StartPerfLogFatal ==
    /\ Alive
    /\ disp.pc = "start_perf"
    /\ \E ok \in BOOLEAN :
          LET h == [kind |-> "perf", id |-> disp.nth] IN
          IF ok
          THEN /\ perfomanceLogFile' = h
               /\ fds' = CreateFile(fds, h)
               /\ process' = process
               /\ disp' = [disp EXCEPT !.pc = "start_route",
                                       !.call = Call("os.Create", h)]
          ELSE /\ perfomanceLogFile' = Nil
               /\ fds' = fds
               /\ process' = "exit1"
               /\ disp' = [disp EXCEPT !.pc = "wait",
                                       !.call = Call("os.Create", Nil)]
    /\ UNCHANGED <<TraceID, sqlLogFile, webrouteLogFile, profilerHandle,
                   profiler, now, signalCh, sigs, calls, measures,
                   registry>>

\* if perfomanceLogFile, err = os.Create(perfomanceLogFileName); err != nil
\* { return }
StartPerfLog ==
    /\ Alive
    /\ disp.pc = "start_perf"
    /\ \E ok \in BOOLEAN :
          LET h == [kind |-> "perf", id |-> disp.nth] IN
          IF ok
          THEN /\ perfomanceLogFile' = h
               /\ fds' = CreateFile(fds, h)
               /\ disp' = [disp EXCEPT !.pc = "start_route",
                                       !.call = Call("os.Create", h)]
          ELSE /\ perfomanceLogFile' = Nil
               /\ fds' = fds
               /\ disp' = [disp EXCEPT !.pc = "wait",
                                       !.call = Call("os.Create", Nil)]
    /\ UNCHANGED <<TraceID, sqlLogFile, webrouteLogFile, profilerHandle,
                   profiler, now, signalCh, sigs, process, calls, measures,
                   registry>>

\* if webrouteLogFile, err = os.Create(webrouteLogFileName); err != nil
\* { return }, and Start returns.
StartRouteLog ==
    /\ Alive
    /\ disp.pc = "start_route"
    /\ \E ok \in BOOLEAN :
          LET h == [kind |-> "route", id |-> disp.nth] IN
          IF ok
          THEN /\ webrouteLogFile' = h
               /\ fds' = CreateFile(fds, h)
               /\ disp' = [disp EXCEPT !.pc = "wait",
                                       !.call = Call("os.Create", h)]
          ELSE /\ webrouteLogFile' = Nil
               /\ fds' = fds
               /\ disp' = [disp EXCEPT !.pc = "wait",
                                       !.call = Call("os.Create", Nil)]
    /\ UNCHANGED <<TraceID, sqlLogFile, perfomanceLogFile, profilerHandle,
                   profiler, now, signalCh, sigs, process, calls, measures,
                   registry>>

\* ------------------------------------------------ the database call path
\* The host application executes a statement through a ":logger" driver;
\* the proxy calls the before-hook.
\* PreFunc: return time.Now().UnixNano(), nil
PreFunc(c) ==
    /\ Alive
    /\ calls[c].pc = "new"
    /\ calls' = [calls EXCEPT ![c].pc = "driver",
                              ![c].ctx = now,
                              ![c].preIn = SessionState]
    /\ UNCHANGED <<session, fds, profiler, now, signalCh, sigs, disp,
                   process, measures,
                   registry>>

\* The underlying driver call completes with its outcome.
DriverReturns(c) ==
    /\ Alive
    /\ calls[c].pc = "driver"
    /\ \E o \in Outcomes :
          calls' = [calls EXCEPT ![c].pc = "post", ![c].err = o]
    /\ UNCHANGED <<session, fds, profiler, now, signalCh, sigs, disp,
                   process, measures,
                   registry>>

\* The underlying driver call takes time: the clock advances while the
\* call is in the driver.
DriverTakes(c) ==
    /\ Alive
    /\ calls[c].pc = "driver"
    /\ now = calls[c].ctx
    /\ \E d \in Durations : now' = now + d
    /\ UNCHANGED <<session, fds, profiler, signalCh, sigs, disp, process,
                   calls, measures, registry>>

\* A PostFunc that hands the error of a failed write back to the proxy.
PostFuncResultWriteError(written) ==
    IF written = "err" THEN "write error" ELSE NoError

\* The value PostFunc returns: nil, whatever fmt.Fprintf returned.
PostFuncResult(written) == NoError

\* A PostFunc that logs every outcome, driver.ErrSkip included.
PostFuncWritesNoSkip(file, err) == file # Nil

\* A PostFunc that logs only the calls that succeeded.
PostFuncWritesOnSuccessOnly(file, err) == file # Nil /\ err = NoError

\* The condition that guards the write in PostFunc.
PostFuncWrites(file, err) == file # Nil /\ err # ErrSkip

\* PostFunc, its condition: if sqlLogFile != nil && err != driver.ErrSkip.
\* When it is false PostFunc returns nil at once.
PostCheck(c) ==
    /\ Alive
    /\ calls[c].pc = "post"
    /\ calls' = IF PostFuncWrites(sqlLogFile, calls[c].err)
                THEN [calls EXCEPT ![c].pc = "now"]
                ELSE [calls EXCEPT ![c].pc = "done",
                                   ![c].ret = PostFuncResult("none")]
    /\ UNCHANGED <<session, fds, profiler, now, signalCh, sigs, disp,
                   process, measures,
                   registry>>

\* PostFunc, the clock: now := time.Now(); startTime := ctx.(int64);
\* timeDelta := now.UnixNano() - startTime.  The elapsed time is fixed
\* here, before the record is written.
PostNow(c) ==
    /\ Alive
    /\ calls[c].pc = "now"
    /\ calls' = [calls EXCEPT ![c].pc = "write",
                              ![c].timeDelta = now - calls[c].ctx]
    /\ UNCHANGED <<session, fds, profiler, now, signalCh, sigs, disp,
                   process, measures,
                   registry>>

\* The line PostFunc writes: start, elapsed time, tag, query.
SqlLine(c, queryString) ==
    LET tq == TagAndQuery(queryString) IN
    FormatRecord(calls[c].ctx, calls[c].timeDelta, tq.tag, tq.query)

\* A PostFunc that gives up the SQL stream when its write fails: it sets
\* sqlLogFile to nil.
PostWriteClearsStream(c) ==
    /\ Alive
    /\ calls[c].pc = "write"
    /\ fds' = Fprintf(fds, sqlLogFile, SqlLine(c, calls[c].stmt))
    /\ sqlLogFile' = IF CanWrite(fds, sqlLogFile) THEN sqlLogFile ELSE Nil
    /\ calls' = [calls EXCEPT ![c].pc = "done",
                              ![c].fprintf = FprintfResult(fds, sqlLogFile),
                              ![c].ret =
                                  PostFuncResult(FprintfResult(fds, sqlLogFile))]
    /\ UNCHANGED <<TraceID, perfomanceLogFile, webrouteLogFile,
                   profilerHandle, profiler, now, signalCh, sigs, disp,
                   process, measures, registry>>

\* PostFunc, the write: the record is formatted from the statement text
\* (stmt.QueryString) and the elapsed time computed before, and written to
\* sqlLogFile (read again here), and PostFunc returns nil.
PostWrite(c) ==
    /\ Alive
    /\ calls[c].pc = "write"
    /\ fds' = Fprintf(fds, sqlLogFile, SqlLine(c, calls[c].stmt))
    /\ calls' = [calls EXCEPT ![c].pc = "done",
                              ![c].fprintf = FprintfResult(fds, sqlLogFile),
                              ![c].ret =
                                  PostFuncResult(FprintfResult(fds, sqlLogFile))]
    /\ UNCHANGED <<session, profiler, now, signalCh, sigs, disp, process,
                   measures,
                   registry>>

\* What the caller of the instrumented exec/query receives: the proxy
\* returns the hook's error if it has one, else the driver's own outcome.
CallerSees(c) ==
    IF calls[c].ret # NoError THEN calls[c].ret ELSE calls[c].err

\* ------------------------------------------------- measurement handles
MeasureTags == {<<"t">>}
MeasureTexts == {<<"x">>}

\* The PerfHandle built by Measure and WebRouteMeasure, a composite literal
\* of the start time, time.Now().UnixNano(), and the current value of the
\* stream variable.  The clock and the variable are read one after the
\* other, in an order the language leaves open: the first step reads
\* both, the second reads one of the two again.
NewPerfHandle(m, fn, file) ==
    /\ Alive
    /\ \/ /\ measures[m].pc = "new"
          /\ \E tag \in MeasureTags, text \in MeasureTexts :
                measures' = [measures EXCEPT ![m].pc = "literal",
                                             ![m].fn = fn,
                                             ![m].startTime = now,
                                             ![m].tag = tag,
                                             ![m].text = text,
                                             ![m].toFile = file,
                                             ![m].madeIn = SessionState]
       \/ /\ measures[m].pc = "literal"
          /\ measures[m].fn = fn
          /\ \/ measures' = [measures EXCEPT ![m].pc = "made",
                                              ![m].startTime = now]
             \/ measures' = [measures EXCEPT ![m].pc = "made",
                                              ![m].toFile = file,
                                              ![m].madeIn = SessionState]
    /\ UNCHANGED <<session, fds, profiler, now, signalCh, sigs, disp,
                   process, calls,
                   registry>>

\* Measure(tag, text): toFile: perfomanceLogFile
Measure(m) == NewPerfHandle(m, "Measure", perfomanceLogFile)

\* WebRouteMeasure(tag, text): toFile: webrouteLogFile
WebRouteMeasure(m) == NewPerfHandle(m, "WebRouteMeasure", webrouteLogFile)

\* The line End writes: start, elapsed time, tag, text.
PerfLine(m) ==
    FormatRecord(measures[m].startTime, measures[m].timeDelta,
                 measures[m].tag, measures[m].text)

\* End, the clock: if p.toFile != nil
\* { timeDelta := time.Now().UnixNano() - p.startTime ... }.  End returns
\* at once when the handle holds no stream.
EndNow(m) ==
    /\ Alive
    /\ measures[m].pc = "made"
    /\ measures' = IF measures[m].toFile # Nil
                   THEN [measures EXCEPT
                           ![m].pc = "write",
                           ![m].timeDelta = now - measures[m].startTime]
                   ELSE [measures EXCEPT ![m].pc = "ended",
                                         ![m].fprintf = "none"]
    /\ UNCHANGED <<session, fds, profiler, now, signalCh, sigs, disp,
                   process, calls,
                   registry>>

\* End, the write: fmt.Fprintf(p.toFile, ...) of the record with the
\* elapsed time computed before.
EndWrite(m) ==
    /\ Alive
    /\ measures[m].pc = "write"
    /\ LET f == measures[m].toFile IN
          /\ fds' = Fprintf(fds, f, PerfLine(m))
          /\ measures' = [measures EXCEPT
                            ![m].pc = "ended",
                            ![m].fprintf = FprintfResult(fds, f)]
    /\ UNCHANGED <<session, profiler, now, signalCh, sigs, disp, process,
                   calls,
                   registry>>

\* (p *PerfHandle) End(), statement by statement.
End(m) ==
    \/ EndNow(m)
    \/ EndWrite(m)

\* ------------------------------------------------- the driver registry
\* A driver name is a sequence of pieces; ":logger" is one piece.
Logger == ":logger"

\* The names under which the host application's drivers register.
HostDrivers == { <<"mysql">>, <<"sqlite3">>, <<"pq", Logger>> }

\* strings.Contains(driverName, ":logger")
ContainsLogger(name) == \E i \in 1 .. Len(name) : name[i] = Logger

\* driverName + ":logger"
NewDriverName(name) == Append(name, Logger)

\* The order of the first bytes of the pieces: ':' < 'm' < 'p' < 's'.
PieceRank(piece) ==
    CASE piece = Logger -> 0
      [] piece = "mysql" -> 1
      [] piece = "pq" -> 2
      [] piece = "sqlite3" -> 3

RECURSIVE NameLess(_, _)
\* The order of Go strings, the order sql.Drivers() sorts by.
NameLess(a, b) ==
    IF a = <<>> THEN b # <<>>
    ELSE IF b = <<>> THEN FALSE
    ELSE IF Head(a) = Head(b) THEN NameLess(Tail(a), Tail(b))
    ELSE PieceRank(Head(a)) < PieceRank(Head(b))

RECURSIVE SortNames(_)
SortNames(S) ==
    IF S = {} THEN <<>>
    ELSE LET m == CHOOSE x \in S : \A y \in S : x = y \/ NameLess(x, y)
         IN <<m>> \o SortNames(S \ {m})

DriverNames(drivers) == {d.name : d \in drivers}

\* sql.Drivers(): the sorted list of the registered names.
Drivers(drivers) == SortNames(DriverNames(drivers))

DriverNamed(drivers, name) == CHOOSE d \in drivers : d.name = name

\* sql.Register called with a name that is already registered panics.
PanicRegisterTwice == "panic: sql: Register called twice for driver"
\* db.Driver() on the nil *sql.DB that a failed sql.Open returned.
PanicNilDB == "panic: nil pointer dereference"

\* A driver package of the host application registers its driver from its
\* own init; whether the driver opens with an empty data source name is a
\* property of it.  Package initialisation runs the init functions one
\* after the other, so this does not happen inside registerTraceDBDriver.
RegisterDriver(name) ==
    /\ Alive
    /\ registry.loop.pc = "idle"
    /\ name \notin DriverNames(registry.drivers)
    /\ \E opens \in BOOLEAN :
          registry' = [registry EXCEPT !.drivers = @ \cup
                          {[name |-> name, opens |-> opens, wraps |-> <<>>]}]
    /\ UNCHANGED <<session, fds, profiler, now, signalCh, sigs, disp,
                   process, calls, measures>>

\* registerTraceDBDriver is entered and the loop begins:
\* for _, driverName := range sql.Drivers() takes the sorted list of the
\* names registered at this moment.
RegisterRange ==
    /\ Alive
    /\ registry.loop.pc = "idle"
    /\ registry.calls < MaxRegisterCalls
    /\ registry' = [registry EXCEPT
                       !.calls = @ + 1,
                       !.loop = [pc |-> "loop",
                                 names |-> Drivers(registry.drivers),
                                 db |-> NoDB]]
    /\ UNCHANGED <<session, fds, profiler, now, signalCh, sigs, disp,
                   process, calls, measures>>

\* The head of an iteration: the function returns when the list is used
\* up; a name with ":logger" is skipped; for another name
\* db, _ := sql.Open(driverName, "") opens the throwaway connection, and db
\* is nil when that fails.
RegisterOpen ==
    /\ Alive
    /\ registry.loop.pc = "loop"
    /\ LET names == registry.loop.names IN
          registry' =
              IF names = <<>> THEN [registry EXCEPT !.loop = NoLoop]
              ELSE IF ContainsLogger(Head(names))
              THEN [registry EXCEPT !.loop.names = Tail(names)]
              ELSE [registry EXCEPT
                      !.loop.pc = "register",
                      !.loop.db =
                          IF DriverNamed(registry.drivers, Head(names)).opens
                          THEN OpenDB ELSE NilDB]
    /\ UNCHANGED <<session, fds, profiler, now, signalCh, sigs, disp,
                   process, calls, measures>>

\* sql.Register(driverName+":logger", proxy.NewProxyContext(db.Driver(),
\* ...)): db.Driver() panics on a nil db, sql.Register panics on a name
\* that is registered already, and else the proxy is registered and the
\* loop goes on with the next name.
RegisterProxy ==
    /\ Alive
    /\ registry.loop.pc = "register"
    /\ LET name == Head(registry.loop.names) IN
          IF registry.loop.db = NilDB
          THEN /\ process' = PanicNilDB
               /\ registry' = registry
          ELSE IF NewDriverName(name) \in DriverNames(registry.drivers)
          THEN /\ process' = PanicRegisterTwice
               /\ registry' = registry
          ELSE /\ process' = process
               /\ registry' =
                     [registry EXCEPT
                        !.drivers = @ \cup
                            {[name |-> NewDriverName(name), opens |-> TRUE,
                              wraps |-> name]},
                        !.loop = [pc |-> "loop",
                                  names |-> Tail(registry.loop.names),
                                  db |-> NoDB]]
    /\ UNCHANGED <<session, fds, profiler, now, signalCh, sigs, disp, calls,
                   measures>>

\* registerTraceDBDriver(), statement by statement; the dispatcher
\* goroutine, started before it is called, runs between its statements.
RegisterTraceDBDriver ==
    \/ RegisterRange
    \/ RegisterOpen
    \/ RegisterProxy

\* ------------------------------------------------------- specification
\* The operating system delivers one of at most `limit` signals.
Signal(limit) == \E s \in Signals : Deliver(s, limit)

\* The dispatcher goroutine: the signal loop, Start and Stop.
Dispatcher ==
    \/ Receive
    \/ Dispatch
    \/ Exit
    \/ StartCheck
    \/ StartTraceID
    \/ StartProfiler
    \/ StartSqlLog
    \/ StartPerfLog
    \/ StartRouteLog
    \/ StopTraceID
    \/ StopProfiler
    \/ StopSqlLog
    \/ StopPerfLog

\* The goroutines of the host application that run database calls.
DatabaseCalls ==
    \/ \E c \in CallIds : PreFunc(c)
    \/ \E c \in CallIds : DriverReturns(c)
    \/ \E c \in CallIds : PostCheck(c)
    \/ \E c \in CallIds : PostNow(c)
    \/ \E c \in CallIds : PostWrite(c)

\* The goroutines of the host application that take measurements.
Measurements ==
    \/ \E m \in MeasureIds : Measure(m)
    \/ \E m \in MeasureIds : WebRouteMeasure(m)
    \/ \E m \in MeasureIds : End(m)

\* Driver registration: the host's driver packages and the tracer's init.
Registration ==
    \/ \E name \in HostDrivers : RegisterDriver(name)
    \/ RegisterTraceDBDriver

Next ==
    \/ Registration
    \/ Tick
    \/ Signal(MaxSignals)
    \/ Dispatcher
    \/ DatabaseCalls
    \/ Measurements

\* The whole program.
Spec == Init /\ [][Next]_vars

\* The session lifecycle alone: the clock, signals and the dispatcher.
SpecLifecycle == Init /\ [][Tick \/ Signal(MaxSignals) \/ Dispatcher]_vars

\* The session lifecycle with database calls in flight.
SpecSql ==
    Init /\ [][Signal(MaxCallSignals) \/ Dispatcher \/ DatabaseCalls]_vars

\* Driver registration, with the dispatcher goroutine running beside it.
SpecRegistry ==
    Init /\ [][Registration \/ Signal(MaxInitSignals) \/ Dispatcher]_vars

\* The session lifecycle with measurements in flight.
SpecPerf ==
    Init /\ [][Signal(MaxCallSignals) \/ Dispatcher \/ Measurements]_vars

\* The signal loop alone, with the dispatcher goroutine scheduled fairly:
\* a statement of the dispatcher that can run does run.
SpecSignals ==
    /\ Init
    /\ [][Signal(MaxSignals) \/ Dispatcher]_vars
    /\ WF_vars(Dispatcher)

\* The hook path of the first database call.
HookPath ==
    \/ PreFunc(FirstCall)
    \/ DriverReturns(FirstCall)
    \/ PostCheck(FirstCall)
    \/ PostNow(FirstCall)
    \/ PostWrite(FirstCall)

\* The first measurement of the host application.
FirstMeasure == CHOOSE m \in MeasureIds : \A d \in MeasureIds : m <= d

\* The first measurement: a handle is made by either function and ended.
Stopwatch ==
    \/ Measure(FirstMeasure)
    \/ WebRouteMeasure(FirstMeasure)
    \/ End(FirstMeasure)

\* The session lifecycle with one database call and one measurement in
\* flight, interleaved with the statements of Start and Stop.
SpecHooks ==
    Init /\ [][\/ Signal(MaxCallSignals)
               \/ Dispatcher
               \/ HookPath
               \/ Stopwatch]_vars

\* The after-hook as a function of the statement text: one call in a
\* Running session, for every generated text.
SpecText == InitText /\ [][HookPath]_vars

\* The after-hook as a function of the statement text, the start time and
\* the elapsed time.
SpecScenario == InitScenario /\ [][DriverTakes(FirstCall) \/ HookPath]_vars

\* ------------------------------------------------------------- claims
\* No Start or Stop is in progress.
Quiet == disp.pc \in {"wait", "dispatch"}

\* The dispatcher is about to execute a statement of Stop.
InStop == disp.pc \in {"stop_id", "stop_prof", "stop_sql", "stop_perf"}

\* The Stop in progress was called while Idle.
StopCalledIdle ==
    IF disp.pc = "stop_id" THEN TraceID = EmptyString ELSE disp.stopIdle

\* The after-hook of call c returns in this step.
HookReturns(c) ==
    calls[c].pc \in {"post", "write"} /\ calls'[c].pc = "done"

\* This step appends exactly one line to the SQL log: the record of a
\* database call, behind what the file held.
SqlLineAppended ==
    \E c \in CallIds :
        fds'.content["sql"] =
            fds.content["sql"] \o SqlLine(c, calls[c].stmt)

\* C1: once a Start that found a session open has run its Stop, in every
\* later state up to the next Start every open stream handle (SQL log,
\* performance log, route log) is one the new session opened: no handle of
\* an earlier session is still open.
C1_RestartClosesEveryStream ==
    (disp.restart /\ ~InStop /\ disp.pc # "start_id")
        => \A h \in fds.open : h.id = disp.nth

\* C2 as claimed: when the after-hook returns while no Start or Stop is in
\* progress, it has appended a record if and only if the session id is set
\* at that moment.
C2_RecordedIffRunning ==
    [][\A c \in CallIds :
          (HookReturns(c) /\ Quiet) =>
              (SqlLineAppended <=> TraceID # EmptyString)]_vars

\* C2 as amended: when the after-hook returns, it has appended a record if
\* and only if sqlLogFile holds an open handle at that moment and the
\* outcome of the call is not driver.ErrSkip, whatever the session state
\* was when the before-hook ran.
C2_RecordedIffStreamOpen ==
    [][\A c \in CallIds :
          HookReturns(c) =>
              (SqlLineAppended <=>
                  (CanWrite(fds, sqlLogFile) /\ calls[c].err # ErrSkip))]_vars

\* C2 witness: a call whose before-hook ran while Idle was recorded by its
\* after-hook.
C2_Witness ==
    \E c \in CallIds :
        /\ calls[c].pc = "done"
        /\ calls[c].preIn = "idle"
        /\ calls[c].fprintf = "ok"

\* C3: no statement of a Stop that was called while Idle changes the open
\* files or the file contents, changes the profiler, or calls Stop on the
\* profiler handle.
C3_IdleStopIsNoOp ==
    [][(InStop /\ StopCalledIdle /\ disp' # disp) =>
          /\ fds' = fds
          /\ profiler' = profiler
          /\ disp'.call.fn # "Stop"]_vars

\* A statement of registerTraceDBDriver runs in this step.
RegisterStep ==
    /\ registry.calls > 0
    /\ registry.loop.pc # "idle"
    /\ registry' # registry \/ process' \in {PanicNilDB, PanicRegisterTwice}

\* registerTraceDBDriver returns in this step.
RegisterReturns ==
    registry.loop.pc = "loop" /\ registry'.loop.pc = "idle"

\* C4: no statement of a call of registerTraceDBDriver registers a name
\* that is already registered, and when the call returns every registered
\* name without ":logger" has its name + ":logger" registered.
C4_RegistrationIsRepeatable ==
    [][RegisterStep =>
          /\ process' # PanicRegisterTwice
          /\ RegisterReturns =>
                \A d \in registry'.drivers :
                    ~ContainsLogger(d.name) =>
                        NewDriverName(d.name) \in
                            DriverNames(registry'.drivers)]_vars

\* C5: a new session id is assigned only while the session id is empty and
\* no profiler run is in progress, the profiler is started only while no
\* run is in progress, and two profiler runs never overlap.
C5_StopBeforeRestart ==
    [][/\ disp'.nth # disp.nth =>
             (TraceID = EmptyString /\ profiler.running = {})
       /\ profilerHandle' # profilerHandle => profiler.running = {}
       /\ Cardinality(profiler'.running) <= 1]_vars

\* C5 witness: a Start that found a session open has started the profiler
\* of the second session.
C5_Witness ==
    /\ disp.restart
    /\ disp.pc = "start_sql"
    /\ disp.nth = 2
    /\ profiler.running = {profilerHandle}

\* C6: whenever an after-hook has returned, it returned nil and the caller
\* sees the outcome of the underlying driver call.
C6_HookReturnsNil ==
    \A c \in CallIds :
        calls[c].pc = "done" =>
            (calls[c].ret = NoError /\ CallerSees(c) = calls[c].err)

\* C6 witness: the underlying call failed, the after-hook's write to the
\* SQL log failed too, and the after-hook has returned.
C6_Witness ==
    \E c \in CallIds :
        /\ calls[c].pc = "done"
        /\ calls[c].err = "error"
        /\ calls[c].fprintf = "err"

\* C7: an after-hook handed driver.ErrSkip changes no file and returns nil;
\* an after-hook handed any other outcome while sqlLogFile is an open
\* handle appends exactly one line to the SQL log.
C7_ErrSkipIsNotLogged ==
    [][\A c \in CallIds :
          HookReturns(c) =>
              IF calls[c].err = ErrSkip
              THEN fds' = fds /\ calls'[c].ret = NoError
              ELSE CanWrite(fds, sqlLogFile) => SqlLineAppended]_vars

\* C7 witness: a declined call has returned from its after-hook while the
\* SQL stream is open, and the log is empty.
C7_Witness ==
    \E c \in CallIds :
        /\ calls[c].pc = "done"
        /\ calls[c].err = ErrSkip
        /\ CanWrite(fds, sqlLogFile)
        /\ fds.content["sql"] = <<>>

\* C8: End of a handle that Measure or WebRouteMeasure created while the
\* session was Idle writes no record.
C8_IdleHandleWritesNothing ==
    \A m \in MeasureIds :
        (measures[m].pc = "ended" /\ measures[m].madeIn = "idle")
            => measures[m].fprintf # "ok"

\* C9: while no Start or Stop is in progress, an empty session id means no
\* stream is open and no profiler run is in progress, and a set session id
\* means a profiler run is in progress.
C9_IdleHasNothingOpen ==
    Quiet =>
        /\ TraceID = EmptyString =>
              (fds.open = {} /\ profiler.running = {})
        /\ TraceID # EmptyString => profiler.running # {}

\* C10: when the process has exited on a terminate signal, the session id
\* is empty, no profiler run is in progress and no stream is open.
C10_ExitAfterStop ==
    process = "exit0" =>
        /\ TraceID = EmptyString
        /\ profiler.running = {}
        /\ fds.open = {}

\* The dispatcher is on its way to os.Exit(0), or the process has ended.
Exiting ==
    \/ ~Alive
    \/ disp.pc = "exit"
    \/ disp.ret = "exit"
    \/ disp.pc = "dispatch" /\ SignalTarget(disp.signal).ret = "exit"

\* The dispatcher has received signal s and is about to act on it.
Received(s) == disp.pc = "dispatch" /\ disp.signal = s

\* The dispatcher acts on the signal it received with the action the signal
\* is mapped to: Start, Stop, or Stop and exit.
MappedAction ==
    [][(disp.pc = "dispatch" /\ disp' # disp) =>
          /\ disp'.pc = SignalTarget(disp.signal).pc
          /\ disp'.ret = SignalTarget(disp.signal).ret]_vars

\* Every signal waiting in the channel while the dispatcher is not on its
\* way to exit is eventually received, and acted on with its mapped action.
QueuedIsHandled ==
    /\ \A s \in Signals :
          (signalCh # <<>> /\ Head(signalCh) = s /\ ~Exiting) ~> Received(s)
    /\ MappedAction

\* C11 as claimed: the dispatcher is a loop, and every signal that is
\* delivered is eventually handled with its mapped action: each delivery
\* puts the signal into the channel, and every signal in the channel is
\* eventually received and acted on.
C11_EveryDeliveredSignalHandled ==
    /\ [][\A s \in Signals :
            Deliver(s, MaxSignals) => signalCh' = Append(signalCh, s)]_vars
    /\ QueuedIsHandled

\* C11 as amended: the dispatcher is a loop: unless it is on its way to
\* exit, a Start or Stop in progress eventually returns to the wait, and
\* every signal accepted into the channel (delivered while the one-slot
\* buffer was free) is eventually received and handled with its mapped
\* action, however many signals were handled before.
C11_LoopHandlesQueuedSignals ==
    /\ (~Quiet /\ ~Exiting) ~> (disp.pc = "wait")
    /\ QueuedIsHandled

\* C11 witness: after a Start and a Stop have been handled, a third signal
\* has been received.
C11_Witness ==
    /\ Received("SIGUSR1")
    /\ disp.nth = 1
    /\ TraceID = EmptyString
    /\ sigs = 3

\* C12: the first call of registerTraceDBDriver does not end the process
\* when a throwaway connection cannot be opened, and when it is over every
\* registered name without ":logger" whose driver does open has its name
\* + ":logger" registered.
C12_FailedOpenSkipsOnlyThatDriver ==
    [][(RegisterStep /\ registry.calls = 1) =>
          /\ process' # PanicNilDB
          /\ RegisterReturns =>
                \A d \in registry.drivers :
                    (~ContainsLogger(d.name) /\ d.opens) =>
                        NewDriverName(d.name) \in
                            DriverNames(registry'.drivers)]_vars

\* The handle is one the Start in progress (the latest one) created, and it
\* is open.
OpenedByThisStart(h) == h \in fds.open /\ h.id = disp.nth

\* C13: a statement of Start whose os.Create fails leaves the process
\* running and the session Running (session id set, the profiler run of
\* the session in progress), leaves the stream variable of the file that
\* failed nil, leaves every stream this Start created before it open, and
\* returns from Start.
C13_FailedCreateLeavesSessionRunning ==
    [][(/\ disp.pc \in {"start_sql", "start_perf", "start_route"}
        /\ disp'.call = Call("os.Create", Nil)) =>
          /\ process' = "running"
          /\ disp'.pc = "wait"
          /\ TraceID' # EmptyString
          /\ profilerHandle' \in profiler'.running
          /\ disp.pc = "start_sql" => sqlLogFile' = Nil
          /\ disp.pc = "start_perf" =>
                /\ perfomanceLogFile' = Nil
                /\ OpenedByThisStart(sqlLogFile)'
          /\ disp.pc = "start_route" =>
                /\ webrouteLogFile' = Nil
                /\ OpenedByThisStart(sqlLogFile)'
                /\ OpenedByThisStart(perfomanceLogFile)']_vars

\* C13 witness: Start has returned after the route log could not be
\* created; the SQL and performance streams it created are open.
C13_Witness ==
    /\ disp.pc = "wait"
    /\ disp.call = Call("os.Create", Nil)
    /\ webrouteLogFile = Nil
    /\ OpenedByThisStart(sqlLogFile)
    /\ OpenedByThisStart(perfomanceLogFile)
    /\ TraceID # EmptyString

\* The after-hook of the first call has written its record.
Logged ==
    calls[FirstCall].pc = "done" /\ calls[FirstCall].fprintf = "ok"

\* The scenario: the text of ScenarioQuery, started at 1000, logged when
\* 1,500,000 ns have elapsed.
ScenarioLogged ==
    /\ Logged
    /\ calls[FirstCall].stmt = ScenarioQuery
    /\ calls[FirstCall].ctx = 1000
    /\ now = 1501000

\* The line "1000\t1500000\tlist-users\tSELECT * FROM users\n".
ClaimedScenarioLine ==
    <<"1", "0", "0", "0", "\t", "1", "5", "0", "0", "0", "0", "0",
      "\t", "l", "i", "s", "t", "-", "u", "s", "e", "r", "s", "\t",
      "S", "E", "L", "E", "C", "T", " ", "*", " ", "F", "R", "O",
      "M", " ", "u", "s", "e", "r", "s", "\n">>

\* The line
\*   "1000\t1500000\tlist-users\tSELECT * FROM users /* list-users */\n".
ScenarioLine ==
    <<"1", "0", "0", "0", "\t", "1", "5", "0", "0", "0", "0", "0",
      "\t", "l", "i", "s", "t", "-", "u", "s", "e", "r", "s", "\t",
      "S", "E", "L", "E", "C", "T", " ", "*", " ", "F", "R", "O",
      "M", " ", "u", "s", "e", "r", "s", " ", "/", "*", " ", "l",
      "i", "s", "t", "-", "u", "s", "e", "r", "s", " ", "*", "/",
      "\n">>

\* C14 as claimed: in the scenario the SQL log holds the single line
\* 1000 <tab> 1500000 <tab> list-users <tab> SELECT * FROM users.
C14_ScenarioLineAsClaimed ==
    ScenarioLogged => fds.content["sql"] = ClaimedScenarioLine

\* C14 as amended: in the scenario the SQL log holds the single line
\* 1000 <tab> 1500000 <tab> list-users <tab>
\* SELECT * FROM users /* list-users */ : the tag is list-users, whitespace
\* runs are single spaces, and the query field ends at the end of the
\* comment.
C14_ScenarioLineEndsAtComment ==
    ScenarioLogged => fds.content["sql"] = ScenarioLine

\* C14 witness: the scenario has been logged.
C14_Witness == ScenarioLogged

\* The positions at which a comment opens in a text: a "/*" that a "*/"
\* follows.
CommentOpens(n) ==
    {i \in 1 .. Len(n) :
        OpenAt(n, i) /\ \E j \in i + 2 .. Len(n) : CloseAt(n, j)}

\* Where the first comment of a text opens, and where it closes.
FirstOpen(n) == Min(CommentOpens(n))
FirstClose(n) == Min({j \in FirstOpen(n) + 2 .. Len(n) : CloseAt(n, j)})

RECURSIVE TrimLeft(_)
TrimLeft(s) == IF s # <<>> /\ Head(s) = " " THEN TrimLeft(Tail(s)) ELSE s

RECURSIVE TrimRight(_)
TrimRight(s) ==
    IF s # <<>> /\ s[Len(s)] = " "
    THEN TrimRight(SubSeq(s, 1, Len(s) - 1)) ELSE s

\* A text without the spaces around it.
TrimSpaces(s) == TrimRight(TrimLeft(s))

NotSpace(ch) == ~IsSpace(ch)

\* n is the text raw with every run of whitespace collapsed to one space:
\* its only whitespace is single spaces, it keeps the other characters of
\* raw in their order, and it has one space for each run of raw.
IsNormalForm(raw, n) ==
    /\ \A i \in 1 .. Len(n) : IsSpace(n[i]) => n[i] = " "
    /\ \A i \in 1 .. Len(n) - 1 : ~(n[i] = " " /\ n[i + 1] = " ")
    /\ SelectSeq(n, NotSpace) = SelectSeq(raw, NotSpace)
    /\ Cardinality({i \in 1 .. Len(n) : n[i] = " "}) =
          Cardinality({i \in 1 .. Len(raw) :
                          IsSpace(raw[i]) /\ (i = 1 \/ ~IsSpace(raw[i - 1]))})
    /\ (n # <<>> /\ raw # <<>>) =>
          /\ IsSpace(n[1]) <=> IsSpace(raw[1])
          /\ IsSpace(n[Len(n)]) <=> IsSpace(raw[Len(raw)])

\* The tag and the query the record of a statement text is to hold.
ExpectedTagAndQuery(n) ==
    IF CommentOpens(n) # {}
    THEN [tag |-> TrimSpaces(SubSeq(n, FirstOpen(n) + 2, FirstClose(n) - 1)),
          query |-> SubSeq(n, 1, FirstClose(n) + 1)]
    ELSE [tag |-> <<>>, query |-> n]

\* C15: whenever the after-hook has written the record of a statement
\* text, the text it normalized has every whitespace run collapsed to one
\* space; if that text has a comment, the tag field is the content of its
\* first comment without the spaces around it and the query field is the
\* normalized text up to the end of that first comment; if it has none,
\* the tag field is empty and the query field is the whole normalized text.
C15_TagIsFirstComment ==
    Logged =>
        LET n == CutSpace(calls[FirstCall].stmt)
            expected == ExpectedTagAndQuery(n)
        IN /\ IsNormalForm(calls[FirstCall].stmt, n)
           /\ fds.content["sql"] =
                 FormatRecord(calls[FirstCall].ctx,
                              now - calls[FirstCall].ctx,
                              expected.tag, expected.query)

\* C15 witness: the record of a text with two comments, "/*a*//**/", has
\* been written, with the tag a.
C15_Witness ==
    /\ Logged
    /\ calls[FirstCall].stmt =
          <<"/", "*", "a", "*", "/", "/", "*", "*", "/">>
    /\ fds.content["sql"] =
          FormatRecord(0, 0, <<"a">>, <<"/", "*", "a", "*", "/">>)

\* The streams the latest Start created: the stream variables that hold a
\* handle of the latest session.
SessionStreams ==
    {h \in {sqlLogFile, perfomanceLogFile, webrouteLogFile} :
        h # Nil /\ h.id = disp.nth}

\* This step ends a profiler run.
ProfilerRunEnds ==
    /\ profiler'.running # profiler.running
    /\ profiler'.running \subseteq profiler.running

\* This step closes a stream.
StreamCloses ==
    /\ fds'.open # fds.open
    /\ fds'.open \subseteq fds.open

\* The dispatcher is executing a Stop that was issued while Running.
RunningStop == InStop /\ ~StopCalledIdle

\* Every stream the latest session has opened is open, and the profiler
\* run it has started is in progress.
SessionIntact ==
    /\ SessionStreams \subseteq fds.open
    /\ (profilerHandle.id = disp.nth) =>
          (profilerHandle \in profiler.running)

\* C16: a step that stops a profiler run or closes a stream is taken only
\* while the session id is empty; in a Stop issued while Running the
\* profiler is stopped while the streams of the session are all still
\* open, and a stream is closed only when no profiler run is in progress;
\* and while the session id is set, every stream the session has opened is
\* open and the profiler run it has started is in progress.
C16_StopClearsIdFirst ==
    /\ [][ProfilerRunEnds =>
            (TraceID = EmptyString /\
             (RunningStop => SessionStreams \subseteq fds.open))]_vars
    /\ [][StreamCloses =>
            (TraceID = EmptyString /\
             (RunningStop => profiler.running = {}))]_vars
    /\ [](TraceID # EmptyString => SessionIntact)

\* C16 witness: a Stop issued while the first session was Running has
\* cleared the session id, stopped the profiler and closed the SQL log,
\* and is about to close the performance log.
C16_Witness ==
    /\ disp.pc = "stop_perf"
    /\ ~disp.stopIdle
    /\ TraceID = EmptyString
    /\ profiler.running = {}
    /\ disp.call = Call("Close", sqlLogFile)
    /\ perfomanceLogFile \in fds.open

\* Start has just returned because the SQL log could not be created.
SqlLogCreateFailed ==
    /\ disp.pc = "wait"
    /\ disp.call = Call("os.Create", Nil)
    /\ sqlLogFile = Nil

\* C17: when Start has returned after failing to create the SQL log, the
\* performance stream and the route stream are open streams of the new
\* session, so no stream variable holds a handle of an earlier session.
C17_FailedSqlLogDisablesOnlySql ==
    SqlLogCreateFailed =>
        /\ OpenedByThisStart(perfomanceLogFile)
        /\ OpenedByThisStart(webrouteLogFile)

\* This step is a step of an instrumentation callback: of the before-hook
\* or the after-hook of a database call, of Measure or WebRouteMeasure, or
\* of End.
CallbackStep == calls' # calls \/ measures' # measures

\* C18: no step of the before-hook, the after-hook, Measure,
\* WebRouteMeasure or End changes the session id, a stream variable or the
\* profiler handle, in whatever state of Start or Stop it is taken.
C18_CallbacksLeaveSessionAlone ==
    [][CallbackStep => UNCHANGED session]_vars

\* C18 witness: while a Stop is in progress, an after-hook has run into
\* the closed SQL stream and End has run.
C18_Witness ==
    /\ InStop
    /\ calls[FirstCall].pc = "done"
    /\ calls[FirstCall].fprintf = "err"
    /\ \E m \in MeasureIds : measures[m].pc = "ended"
    /\ sqlLogFile # Nil

\* A statement of End of handle m runs in this step.
EndRuns(m) ==
    measures[m].pc \in {"made", "write"} /\ measures'[m] # measures[m]

\* A later Start than the one that created stream f has created the file
\* of f again, and the stream it created is open.
LaterStream(f) ==
    \E h \in fds.open : h.kind = f.kind /\ h.id > f.id

\* C19: no statement of End of a measurement handle, made by Measure or by
\* WebRouteMeasure, changes a file once a later Start than the one that
\* created the stream the handle holds has created that log again: the
\* handle writes nothing into the later session.
C19_HandleStaysInItsSession ==
    [][\A m \in MeasureIds :
          (EndRuns(m) /\ LaterStream(measures[m].toFile)) =>
              fds' = fds]_vars

\* This step is the statement of Start that creates the SQL log.
CreatesSqlLog == disp.pc = "start_sql" /\ disp'.pc # "start_sql"

\* C20 as claimed: every Start leaves the SQL log file empty, so that it
\* holds no record written during an earlier session.
C20_EveryStartEmptiesSqlLog ==
    [][CreatesSqlLog => fds'.content["sql"] = <<>>]_vars

\* C20 as amended: a Start whose os.Create of the SQL log succeeds leaves
\* the log file empty, and a line is appended to the SQL log only through
\* the open handle that the latest Start created; a Start whose os.Create
\* of the SQL log fails leaves the file as it was, with the records of the
\* earlier session, and sqlLogFile nil.
C20_SqlLogHoldsLatestSessionOnly ==
    /\ [][(sqlLogFile' # sqlLogFile /\ sqlLogFile' # Nil) =>
            fds'.content["sql"] = <<>>]_vars
    /\ [][fds'.content["sql"] # fds.content["sql"] =>
            \/ fds'.content["sql"] = <<>>
            \/ (SqlLineAppended /\ OpenedByThisStart(sqlLogFile))]_vars
    /\ [][(CreatesSqlLog /\ sqlLogFile' = Nil) =>
            fds'.content["sql"] = fds.content["sql"]]_vars

\* C20 witness: a call was recorded in the first session, and the second
\* Start has created the SQL log, which is empty.
C20_Witness ==
    /\ calls[FirstCall].pc = "done"
    /\ calls[FirstCall].fprintf = "ok"
    /\ disp.nth = 2
    /\ sqlLogFile = [kind |-> "sql", id |-> 2]
    /\ sqlLogFile \in fds.open
    /\ fds.content["sql"] = <<>>

====
